---- MODULE Spec2Model ----
(***************************************************************************)
(* Model of hyper-tls' HttpsConnector (src/client.rs): a tower Service     *)
(* that, per Uri, connects through a raw connector and, for the `https`    *)
(* scheme, runs a TLS handshake over the raw stream.                       *)
(*                                                                         *)
(* The raw connector (T: Service<Uri>) and the handshake provider          *)
(* (tokio_native_tls::TlsConnector) are collaborators: the model keeps     *)
(* the state of the operation each of them hands out (rawOp, tlsOp) and    *)
(* lets the environment complete it.  The async block of `call` is the     *)
(* state machine fut[c].pc: Unresumed, AwaitRaw (suspended at              *)
(* `connecting.await`), AwaitTls (suspended at `connect(..).await`),       *)
(* Returned.                                                               *)
(***************************************************************************)
EXTENDS Integers, Sequences, FiniteSets, TLC

VARIABLES
    alive,          \* the HttpsConnector values that exist
    force_https,    \* HttpsConnector.force_https, per connector
    clock,          \* what std::time::Instant::now() returns
    fut,            \* the HttpsConnecting returned by each call
    rawOp,          \* T::Future of each call (`connecting`)
    tlsOp,          \* the future of tls_connector.connect of each call
    stream,         \* who holds the raw stream (tcp) of each call
    hist,           \* per call, the collaborator events in the order they happened
    last_op,        \* the last operation made on a connector itself
    last_set        \* per connector, the argument of the last https_only it got

vars == <<alive, force_https, clock, fut, rawOp, tlsOp, stream, hist, last_op, last_set>>

(* ---------------------------- bounds ---------------------------------- *)

MaxCalls == 1
MaxFlights == 2
MaxClock == 6

\* The futures a behaviour may create: MaxCalls of them under Spec, SpecSvc and
\* SpecLive, MaxFlights under SpecPair.
Calls == 1 .. MaxFlights
Svc == {"a", "b"}

(* ---------------------------- values ---------------------------------- *)

\* Option<T>: None is the empty sequence, Some(x) the one-element sequence.
None == << >>
Some(x) == <<x>>
UnwrapOr(o, d) == IF o = None THEN d ELSE o[1]

example_com == <<"e", "x", "a", "m", "p", "l", "e", ".", "c", "o", "m">>
v6_loopback == <<"[", ":", ":", "1", "]">>

\* A Uri as the code reads it: scheme_str() and host().  http::Uri carries
\* an authority whenever it carries a scheme, so only the scheme-less
\* path-only form has no host.
Uris ==
    { [scheme |-> Some("http"),  host |-> Some(example_com)],
      [scheme |-> Some("https"), host |-> Some(example_com)],
      [scheme |-> Some("https"), host |-> Some(v6_loopback)],
      [scheme |-> Some("ws"),    host |-> Some(example_com)],
      [scheme |-> None,          host |-> None] }

NoUri == [scheme |-> None, host |-> None]

\* hyper::rt::ConnectionStats as a raw stream reports it.
RawStatsFull ==
    [ start_time        |-> Some(0),
      dns_resolve_start |-> Some(1),
      dns_resolve_end   |-> Some(2),
      connect_start     |-> Some(3),
      connect_end       |-> Some(4),
      tls_connect_start |-> None,
      tls_connect_end   |-> None ]

\* What Stats::stats() of a raw stream may return.
RawStats == { None, Some(RawStatsFull) }

RawConnectError == "raw connect error"
HandshakeError == "handshake error"
ForceHttpsButUriNotHttps == "https required but URI was not https"

\* e.into(): the error boxed as BoxError, the error itself kept inside.
Into(e) == [boxed |-> e]

Pending == [tag |-> "Pending", variant |-> "-", stats |-> None, e |-> Into("-")]
ReadyOk(variant, stats) == [tag |-> "Ok", variant |-> variant, stats |-> stats, e |-> Into("-")]
ReadyErr(e) == [tag |-> "Err", variant |-> "-", stats |-> None, e |-> e]

NoFut ==
    [ pc |-> "None", kind |-> "-", dst |-> NoUri, flag |-> FALSE,
      is_https |-> FALSE, host |-> << >>, stats |-> None, tls_start |-> None,
      e |-> Into("-"), out |-> Pending ]

\* A future that has returned or was dropped holds none of its captures.
Released(f, pc) ==
    [NoFut EXCEPT !.pc = pc, !.kind = f.kind, !.dst = f.dst, !.flag = f.flag,
                  !.out = f.out]

\* What T::poll_ready may answer.
HttpReady ==
    { [tag |-> "Pending", e |-> "-"],
      [tag |-> "ReadyOk", e |-> "-"],
      [tag |-> "ReadyErr", e |-> RawConnectError] }

NoOp ==
    [ name |-> "-", svc |-> "-", enable |-> FALSE, from |-> "-",
      http |-> [tag |-> "-", e |-> "-"], out |-> [tag |-> "-", e |-> Into("-")] ]

NoRawOp == [state |-> "none", uri |-> NoUri, stats |-> None]
NoTlsOp == [state |-> "none", domain |-> << >>]

(* ------------------------- pure code ---------------------------------- *)

\* Fault: the scheme test accepts every scheme that starts with "http".
IsHttps_prefix(dst) == dst.scheme \in {Some("http"), Some("https")}

\* Fault: the scheme is compared with the wrong literal.
IsHttps_upper(dst) == dst.scheme = Some("HTTPS")

\* Fault: the test is "not http" instead of "https".
IsHttps_nothttp(dst) == dst.scheme # Some("http")

\* line 134: dst.scheme_str() == Some("https")
IsHttps(dst) == dst.scheme = Some("https")

\* Fault: the negation of is_https is lost.
EarlyAbort_unnegated(is_https, force) == is_https /\ force

\* Fault: the scheme is not looked at when HTTPS is forced.
EarlyAbort_forced(is_https, force) == force

\* line 136: !is_https && self.force_https
EarlyAbort(is_https, force) == (~is_https) /\ force

IsBracket(c) == c = "[" \/ c = "]"

RECURSIVE TrimStart(_)
TrimStart(s) ==
    IF s # << >> /\ IsBracket(Head(s)) THEN TrimStart(Tail(s)) ELSE s

RECURSIVE TrimEnd(_)
TrimEnd(s) ==
    IF s # << >> /\ IsBracket(s[Len(s)]) THEN TrimEnd(SubSeq(s, 1, Len(s) - 1)) ELSE s

\* Fault: trim_start_matches instead of trim_matches.
trim_matches_start(s) == TrimStart(s)

\* str::trim_matches(|c| c == '[' || c == ']')
trim_matches(s) == TrimEnd(TrimStart(s))

\* lines 140-144
HostOf(dst) == trim_matches(UnwrapOr(dst.host, << >>))

\* Fault: the two handshake instants are stored in each other's field.
MergeStats_swapped(stats, tls_start, tls_end) ==
    IF stats = None THEN None
    ELSE Some([stats[1] EXCEPT !.tls_connect_start = Some(tls_end),
                               !.tls_connect_end = Some(tls_start)])

\* Fault: connect_end is copied from connect_start.
MergeStats_misfield(stats, tls_start, tls_end) ==
    IF stats = None THEN None
    ELSE Some([stats[1] EXCEPT !.connect_end = stats[1].connect_start,
                               !.tls_connect_start = Some(tls_start),
                               !.tls_connect_end = Some(tls_end)])

\* Fault: a default record is filled in when the raw stream reported none
\* (unwrap_or_default instead of map).
MergeStats_default(stats, tls_start, tls_end) ==
    Some([ start_time        |-> IF stats = None THEN None ELSE stats[1].start_time,
           dns_resolve_start |-> IF stats = None THEN None ELSE stats[1].dns_resolve_start,
           dns_resolve_end   |-> IF stats = None THEN None ELSE stats[1].dns_resolve_end,
           connect_start     |-> IF stats = None THEN None ELSE stats[1].connect_start,
           connect_end       |-> IF stats = None THEN None ELSE stats[1].connect_end,
           tls_connect_start |-> Some(tls_start),
           tls_connect_end   |-> Some(tls_end) ])

\* lines 160-168: stats.map(|s| ConnectionStats { .. })
MergeStats(stats, tls_start, tls_end) ==
    IF stats = None THEN None
    ELSE LET s == stats[1] IN
         Some([ start_time        |-> s.start_time,
                dns_resolve_start |-> s.dns_resolve_start,
                dns_resolve_end   |-> s.dns_resolve_end,
                connect_start     |-> s.connect_start,
                connect_end       |-> s.connect_end,
                tls_connect_start |-> Some(tls_start),
                tls_connect_end   |-> Some(tls_end) ])

\* Fault: the raw connector's operation is not awaited; whatever has not
\* failed yet is taken for a connected stream.
AwaitConnecting_nowait(op) ==
    CASE op.state = "err" -> [tag |-> "Err", stats |-> None, e |-> Into(RawConnectError)]
      [] OTHER            -> [tag |-> "Ok", stats |-> op.stats, e |-> Into("-")]

\* Fault: map_err replaces the raw connector's error by the connector's own.
AwaitConnecting_maperr(op) ==
    CASE op.state = "ok"  -> [tag |-> "Ok", stats |-> op.stats, e |-> Into("-")]
      [] op.state = "err" -> [tag |-> "Err", stats |-> None,
                              e |-> Into(ForceHttpsButUriNotHttps)]
      [] OTHER            -> [tag |-> "Pending", stats |-> None, e |-> Into("-")]

\* line 150: connecting.await.map_err(Into::into) over the state of the raw
\* connector's operation.
AwaitConnecting(op) ==
    CASE op.state = "ok"  -> [tag |-> "Ok", stats |-> op.stats, e |-> Into("-")]
      [] op.state = "err" -> [tag |-> "Err", stats |-> None, e |-> Into(RawConnectError)]
      [] OTHER            -> [tag |-> "Pending", stats |-> None, e |-> Into("-")]

\* Fault: the handshake's result is not inspected (no `?`).
AwaitHandshake_unchecked(state) ==
    CASE state \in {"ok", "err"} -> [tag |-> "Ok", e |-> Into("-")]
      [] OTHER                   -> [tag |-> "Pending", e |-> Into("-")]

\* Fault: the completion of the handshake is never noticed.
AwaitHandshake_stuck(state) ==
    CASE state = "err" -> [tag |-> "Err", e |-> Into(HandshakeError)]
      [] OTHER         -> [tag |-> "Pending", e |-> Into("-")]

\* line 156: tls_connector.connect(&host, stream).await? over the state of
\* the handshake operation.
AwaitHandshake(state) ==
    CASE state = "ok"  -> [tag |-> "Ok", e |-> Into("-")]
      [] state = "err" -> [tag |-> "Err", e |-> Into(HandshakeError)]
      [] OTHER         -> [tag |-> "Pending", e |-> Into("-")]

(* ---------------------------- state ----------------------------------- *)

\* Fault: a connector is constructed with HTTPS forced.
From_forced == [force_https |-> TRUE]

\* lines 96-102: HttpsConnector::from((http, tls))
From == [force_https |-> FALSE]

\* lines 82-92: HttpsConnector::new_with_connector
NewWithConnector == From

\* lines 61-63: Default::default
Default == NewWithConnector

\* lines 46-57: HttpsConnector::new, through new_
New == From

Constructors == {From, NewWithConnector, Default, New}

\* Connector "a" has been constructed; nothing else has happened.
InitAt(t) ==
    /\ alive = {"a"}
    /\ \E ctor \in Constructors :
            force_https = [s \in Svc |-> IF s = "a" THEN ctor.force_https ELSE FALSE]
    /\ clock = t
    /\ last_op = NoOp
    /\ last_set = [s \in Svc |-> None]
    /\ fut = [c \in Calls |-> NoFut]
    /\ rawOp = [c \in Calls |-> NoRawOp]
    /\ tlsOp = [c \in Calls |-> NoTlsOp]
    /\ stream = [c \in Calls |-> "none"]
    /\ hist = [c \in Calls |-> << >>]

Init == InitAt(5)

\* The same, at an instant after which the clock of the model stands still.
InitStill == InitAt(MaxClock)

Created == {c \in Calls : fut[c].pc # "None"}

\* Fault: the connector keeps one future and hands it out for every call.
NextCall_reuse == CHOOSE c \in Calls : \A d \in Calls : c <= d

\* Every call boxes a future of its own (line 176).
NextCall == Cardinality(Created) + 1

\* Fault: the flag lives behind a handle that all clones share.
https_only_shared(s, enable) ==
    /\ s \in alive
    /\ force_https' = [t \in Svc |-> IF t \in alive THEN enable ELSE force_https[t]]
    /\ last_op' = [NoOp EXCEPT !.name = "https_only", !.svc = s, !.enable = enable]
    /\ last_set' = [last_set EXCEPT ![s] = Some(enable)]
    /\ UNCHANGED <<alive, clock, fut, rawOp, tlsOp, stream, hist>>

\* HttpsConnector::https_only
https_only(s, enable) ==
    /\ s \in alive
    /\ force_https' = [force_https EXCEPT ![s] = enable]
    /\ last_op' = [NoOp EXCEPT !.name = "https_only", !.svc = s, !.enable = enable]
    /\ last_set' = [last_set EXCEPT ![s] = Some(enable)]
    /\ UNCHANGED <<alive, clock, fut, rawOp, tlsOp, stream, hist>>

\* #[derive(Clone)] on HttpsConnector: t is the clone of s.  The clone starts
\* from what s was told, so last_set goes with the flag.
clone(s, t) ==
    /\ s \in alive
    /\ t \notin alive
    /\ alive' = alive \cup {t}
    /\ force_https' = [force_https EXCEPT ![t] = force_https[s]]
    /\ last_set' = [last_set EXCEPT ![t] = last_set[s]]
    /\ last_op' = [NoOp EXCEPT !.name = "clone", !.svc = t, !.from = s]
    /\ UNCHANGED <<clock, fut, rawOp, tlsOp, stream, hist>>

\* Fault: the connector answers Ready(Ok) while the raw connector is pending.
PollReady_eager(a) ==
    CASE a.tag = "ReadyErr" -> [tag |-> "ReadyErr", e |-> Into(a.e)]
      [] OTHER              -> [tag |-> "ReadyOk", e |-> Into("-")]

\* lines 126-130: the match on self.http.poll_ready(cx)
PollReady(a) ==
    CASE a.tag = "ReadyOk"  -> [tag |-> "ReadyOk", e |-> Into("-")]
      [] a.tag = "ReadyErr" -> [tag |-> "ReadyErr", e |-> Into(a.e)]
      [] OTHER              -> [tag |-> "Pending", e |-> Into("-")]

\* HttpsConnector::poll_ready, lines 125-131; a is what the raw connector
\* answers.
poll_ready(s, a) ==
    /\ s \in alive
    /\ last_op' = [NoOp EXCEPT !.name = "poll_ready", !.svc = s, !.http = a,
                               !.out = PollReady(a)]
    /\ UNCHANGED <<alive, force_https, last_set, clock, fut, rawOp, tlsOp, stream, hist>>

\* The monotonic clock behind Instant::now() advances.
Tick ==
    /\ clock < MaxClock
    /\ clock' = clock + 1
    /\ UNCHANGED <<alive, force_https, last_op, last_set, fut, rawOp, tlsOp, stream, hist>>

\* fn err(e): a future that holds nothing but the error.
err(e) == [NoFut EXCEPT !.pc = "Unresumed", !.kind = "err", !.e = e]

\* Fault: the connector is called a second time for the same dst.
HttpCall_twice(dst) ==
    [ op |-> [state |-> "pending", uri |-> dst, stats |-> None],
      events |-> << <<"raw_call">>, <<"raw_call">> >> ]

\* Fault: the connector is not called by `call`; the call is left to the
\* first poll.
HttpCall_lazy(dst) == [op |-> NoRawOp, events |-> << >>]

\* line 145: self.http.call(dst): the operation the raw connector hands out,
\* and the invocation as the connector sees it.
HttpCall(dst) ==
    [ op |-> [state |-> "pending", uri |-> dst, stats |-> None],
      events |-> << <<"raw_call">> >> ]

\* HttpsConnector::call, lines 133-177.  Creating the async block runs none
\* of its body; self.http.call(dst) runs here.
call(s, dst) ==
    LET c == NextCall
        is_https == IsHttps(dst)
    IN
    /\ s \in alive
    /\ c \in Calls
    /\ IF EarlyAbort(is_https, force_https[s])
       THEN /\ fut' = [fut EXCEPT ![c] =
                        [err(Into(ForceHttpsButUriNotHttps)) EXCEPT
                            !.dst = dst, !.flag = force_https[s]]]
            /\ UNCHANGED <<rawOp, hist>>
       ELSE /\ fut' = [fut EXCEPT ![c] =
                        [NoFut EXCEPT !.pc = "Unresumed", !.kind = "connect",
                            !.dst = dst, !.flag = force_https[s],
                            !.is_https = is_https, !.host = HostOf(dst)]]
            /\ rawOp' = [rawOp EXCEPT ![c] = HttpCall(dst).op]
            /\ hist' = [hist EXCEPT ![c] = HttpCall(dst).events]
    /\ UNCHANGED <<alive, force_https, last_op, last_set, clock, tlsOp, stream>>

\* The raw connector's operation completes (outside any poll of ours).
RawComplete(c, ok, stats) ==
    /\ rawOp[c].state = "pending"
    /\ IF ok
       THEN /\ rawOp' = [rawOp EXCEPT ![c].state = "ok", ![c].stats = stats]
            /\ stream' = [stream EXCEPT ![c] = "rawop"]
            /\ hist' = [hist EXCEPT ![c] = Append(@, <<"raw_ok">>)]
       ELSE /\ stats = None
            /\ rawOp' = [rawOp EXCEPT ![c].state = "err"]
            /\ hist' = [hist EXCEPT ![c] = Append(@, <<"raw_err">>)]
            /\ UNCHANGED stream
    /\ UNCHANGED <<alive, force_https, last_op, last_set, clock, fut, tlsOp>>

\* The handshake operation completes between two polls.
TlsComplete(c, ok) ==
    /\ tlsOp[c].state = "pending"
    /\ tlsOp' = [tlsOp EXCEPT ![c].state = IF ok THEN "ok" ELSE "err"]
    /\ hist' = [hist EXCEPT ![c] = Append(@, IF ok THEN <<"tls_ok">> ELSE <<"tls_err">>)]
    /\ UNCHANGED <<alive, force_https, last_op, last_set, clock, fut, rawOp, stream>>

\* The future was polled and gave `out`.
Polled(f, out) ==
    IF out.tag = "Pending" THEN f ELSE Released([f EXCEPT !.out = out], "Returned")

\* lines 156-174, from the poll of the handshake operation on: f is the
\* future with the stats snapshot and tls_start taken, seen the handshake
\* state the poll finds, now the clock when the handshake has answered, h the
\* events so far.
HandshakePolled(c, f, seen, now, h) ==
    LET r == AwaitHandshake(seen) IN
    CASE r.tag = "Pending" ->
            /\ now = clock
            /\ fut' = [fut EXCEPT ![c] = Polled([f EXCEPT !.pc = "AwaitTls"], Pending)]
            /\ stream' = [stream EXCEPT ![c] = "tlsop"]
            /\ hist' = [hist EXCEPT ![c] = h]
            /\ UNCHANGED clock
      [] r.tag = "Err" ->
            /\ now = clock
            /\ fut' = [fut EXCEPT ![c] =
                        Polled(f, ReadyErr(r.e))]
            /\ stream' = [stream EXCEPT ![c] = "dropped"]
            /\ hist' = [hist EXCEPT ![c] = h]
            /\ UNCHANGED clock
      [] r.tag = "Ok" ->
            LET tls_end == now IN
            /\ fut' = [fut EXCEPT ![c] =
                        Polled(f, ReadyOk("Https",
                                          MergeStats(f.stats, f.tls_start[1], tls_end)))]
            /\ stream' = [stream EXCEPT ![c] = "output"]
            /\ hist' = [hist EXCEPT ![c] = Append(h, <<"tls_end", tls_end>>)]
            /\ clock' = now

\* HttpsConnecting::poll, lines 192-194, which resumes the async block of
\* lines 149-175 (or the one of err, line 181).
poll(c) ==
    LET f == fut[c] IN
    /\ f.pc \in {"Unresumed", "AwaitRaw", "AwaitTls"}
    /\ UNCHANGED <<alive, force_https, last_op, last_set>>
    /\ \/ /\ f.kind = "err"
          /\ fut' = [fut EXCEPT ![c] =
                      Polled(f, ReadyErr(f.e))]
          /\ UNCHANGED <<clock, rawOp, tlsOp, stream, hist>>
       \/ /\ f.kind = "connect"
          /\ f.pc \in {"Unresumed", "AwaitRaw"}
          /\ LET r == AwaitConnecting(rawOp[c]) IN
             CASE r.tag = "Pending" ->
                    /\ fut' = [fut EXCEPT ![c] = Polled([f EXCEPT !.pc = "AwaitRaw"], Pending)]
                    /\ UNCHANGED <<clock, rawOp, tlsOp, stream, hist>>
               [] r.tag = "Err" ->
                    /\ fut' = [fut EXCEPT ![c] =
                                Polled(f, ReadyErr(r.e))]
                    /\ rawOp' = [rawOp EXCEPT ![c].state = "done"]
                    /\ UNCHANGED <<clock, tlsOp, stream, hist>>
               [] r.tag = "Ok" /\ ~f.is_https ->
                    /\ fut' = [fut EXCEPT ![c] =
                                Polled(f, ReadyOk("Http", r.stats))]
                    /\ rawOp' = [rawOp EXCEPT ![c].state = "done"]
                    /\ stream' = [stream EXCEPT ![c] = "output"]
                    /\ UNCHANGED <<clock, tlsOp, hist>>
               [] r.tag = "Ok" /\ f.is_https ->
                    \* the handshake operation may answer at its first poll
                    \E first \in {"pending", "ok", "err"}, now \in clock .. MaxClock :
                        LET tls_start == clock
                            h == hist[c] \o << <<"tls_start", tls_start>>, <<"tls_call">> >>
                                         \o (CASE first = "ok"  -> << <<"tls_ok">> >>
                                               [] first = "err" -> << <<"tls_err">> >>
                                               [] OTHER         -> << >>)
                        IN
                        /\ rawOp' = [rawOp EXCEPT ![c].state = "done"]
                        /\ tlsOp' = [tlsOp EXCEPT ![c] =
                                        [state |-> IF first = "pending" THEN "pending" ELSE "done",
                                         domain |-> f.host]]
                        /\ HandshakePolled(c,
                                [f EXCEPT !.stats = r.stats, !.tls_start = Some(tls_start)],
                                first, now, h)
       \/ /\ f.kind = "connect"
          /\ f.pc = "AwaitTls"
          /\ tlsOp' = [tlsOp EXCEPT ![c].state = IF @ = "pending" THEN @ ELSE "done"]
          /\ HandshakePolled(c, f, tlsOp[c].state, clock, hist[c])
          /\ UNCHANGED rawOp

\* Fault: the work runs detached from the future, which only waits for it.
drop_detached(c) ==
    /\ fut[c].pc \in {"Unresumed", "AwaitRaw", "AwaitTls", "Returned"}
    /\ fut' = [fut EXCEPT ![c] = Released(@, "Dropped")]
    /\ UNCHANGED <<rawOp, tlsOp, stream>>
    /\ UNCHANGED <<alive, force_https, last_op, last_set, clock, hist>>

\* The HttpsConnecting is dropped: the boxed async block drops what it holds.
drop(c) ==
    /\ fut[c].pc \in {"Unresumed", "AwaitRaw", "AwaitTls", "Returned"}
    /\ fut' = [fut EXCEPT ![c] = Released(@, "Dropped")]
    /\ rawOp' = [rawOp EXCEPT ![c].state =
                    IF @ \in {"pending", "ok", "err"} THEN "dropped" ELSE @]
    /\ tlsOp' = [tlsOp EXCEPT ![c].state =
                    IF @ \in {"pending", "ok", "err"} THEN "dropped" ELSE @]
    /\ stream' = [stream EXCEPT ![c] = IF @ \in {"rawop", "tlsop"} THEN "dropped" ELSE @]
    /\ UNCHANGED <<alive, force_https, last_op, last_set, clock, hist>>

Next ==
    \/ \E s \in Svc, enable \in BOOLEAN : https_only(s, enable)
    \/ \E s \in Svc, dst \in Uris : NextCall <= MaxCalls /\ call(s, dst)
    \/ \E c \in Calls, stats \in RawStats : RawComplete(c, TRUE, stats)
    \/ \E c \in Calls : RawComplete(c, FALSE, None)
    \/ \E c \in Calls, ok \in BOOLEAN : TlsComplete(c, ok)
    \/ \E c \in Calls : poll(c)
    \/ \E c \in Calls : drop(c)
    \/ Tick

Spec == Init /\ [][Next]_vars

\* The Uris of the specifications that are about the connectors and their
\* flag rather than about one connection.
LightUris ==
    { [scheme |-> Some("http"),  host |-> Some(example_com)],
      [scheme |-> Some("https"), host |-> Some(example_com)] }

\* The connectors: setter, clone, readiness, and calls on any of them.
NextSvc ==
    \/ \E s \in Svc, enable \in BOOLEAN : https_only(s, enable)
    \/ \E s, t \in Svc : clone(s, t)
    \/ \E s \in Svc, a \in HttpReady : poll_ready(s, a)
    \/ \E s \in Svc, dst \in LightUris : NextCall <= MaxCalls /\ call(s, dst)
    \/ \E c \in Calls : RawComplete(c, TRUE, None)
    \/ \E c \in Calls : RawComplete(c, FALSE, None)
    \/ \E c \in Calls, ok \in BOOLEAN : TlsComplete(c, ok)
    \/ \E c \in Calls : poll(c)

SpecSvc == InitStill /\ [][NextSvc]_vars

\* Several futures of one connector in flight, the flag changing meanwhile.
NextPair ==
    \/ \E enable \in BOOLEAN : https_only("a", enable)
    \/ \E dst \in LightUris : NextCall <= MaxFlights /\ call("a", dst)
    \/ \E c \in Calls : RawComplete(c, TRUE, None)
    \/ \E c \in Calls : RawComplete(c, FALSE, None)
    \/ \E c \in Calls, ok \in BOOLEAN : TlsComplete(c, ok)
    \/ \E c \in Calls : poll(c)

SpecPair == InitStill /\ [][NextPair]_vars

\* Spec without the clock advancing on its own, and with what the claim about
\* termination supposes: a future that is not dropped keeps being polled, and
\* the collaborators' operations complete.
NextLive ==
    \/ \E s \in Svc, enable \in BOOLEAN : https_only(s, enable)
    \/ \E s \in Svc, dst \in Uris : NextCall <= MaxCalls /\ call(s, dst)
    \/ \E c \in Calls, stats \in RawStats : RawComplete(c, TRUE, stats)
    \/ \E c \in Calls : RawComplete(c, FALSE, None)
    \/ \E c \in Calls, ok \in BOOLEAN : TlsComplete(c, ok)
    \/ \E c \in Calls : poll(c)
    \/ \E c \in Calls : drop(c)

Fairness ==
    \A c \in Calls :
        /\ WF_vars(poll(c))
        /\ WF_vars(\E ok \in BOOLEAN, stats \in RawStats : RawComplete(c, ok, stats))
        /\ WF_vars(\E ok \in BOOLEAN : TlsComplete(c, ok))

SpecLive == InitStill /\ [][NextLive]_vars /\ Fairness

(* --------------------------- properties -------------------------------- *)

\* Positions in hist[c] of the event named ev.
At(c, ev) == {i \in DOMAIN hist[c] : hist[c][i][1] = ev}
Ev(c, ev) == At(c, ev) # {}
\* Some ev1 happened, and every ev2 came after an ev1.
Before(c, ev1, ev2) ==
    /\ Ev(c, ev1)
    /\ \A j \in At(c, ev2) : \E i \in At(c, ev1) : i < j

RawInvoked(c) == rawOp[c].state # "none" \/ Ev(c, "raw_call")
TlsInvoked(c) == tlsOp[c].state # "none" \/ Ev(c, "tls_call")
Scheme(c) == fut[c].dst.scheme
Resolved(c) == fut[c].out.tag # "Pending"
Suspended(c) == fut[c].pc \in {"AwaitRaw", "AwaitTls"}

\* C1: a call with scheme http on a connector whose force_https is true
\* gives a future that is never pending once polled and resolves to the
\* error ForceHttpsButUriNotHttps; the raw connector and the handshake
\* provider are never invoked for it.
C1_ForcedHttpRejected ==
    \A c \in Created :
        (Scheme(c) = Some("http") /\ fut[c].flag) =>
            /\ ~Suspended(c)
            /\ fut[c].out \in {Pending, ReadyErr(Into(ForceHttpsButUriNotHttps))}
            /\ fut[c].pc = "Returned" => Resolved(c)
            /\ fut[c].pc = "Unresumed" => ~Resolved(c)
            /\ ~RawInvoked(c)
            /\ ~TlsInvoked(c)
            /\ stream[c] = "none"

C1_Witness ==
    \E c \in Created :
        /\ Scheme(c) = Some("http") /\ fut[c].flag
        /\ fut[c].pc = "Returned"
        /\ fut[c].out = ReadyErr(Into(ForceHttpsButUriNotHttps))

\* C2: a call with scheme http on a connector whose force_https is false
\* never invokes the handshake provider, and once the raw connector's
\* operation has succeeded it resolves to the Http variant only.
C2_HttpIsPlain ==
    \A c \in Created :
        (Scheme(c) = Some("http") /\ ~fut[c].flag) =>
            /\ ~TlsInvoked(c)
            /\ RawInvoked(c)
            /\ (Ev(c, "raw_ok") /\ Resolved(c)) =>
                    fut[c].out = ReadyOk("Http", rawOp[c].stats)
            /\ fut[c].out.tag = "Ok" => Ev(c, "raw_ok")

C2_Witness ==
    \E c \in Created :
        /\ Scheme(c) = Some("http") /\ ~fut[c].flag
        /\ Ev(c, "raw_ok")
        /\ fut[c].out.tag = "Ok" /\ fut[c].out.variant = "Http"

\* C3: a call with scheme https that resolves successfully resolves to
\* the Https variant, whatever force_https was.
C3_HttpsIsEncrypted ==
    \A c \in Created :
        (Scheme(c) = Some("https") /\ fut[c].out.tag = "Ok") =>
            /\ fut[c].out.variant = "Https"
            /\ stream[c] = "output"
            /\ Ev(c, "tls_ok")

C3_Witness ==
    \E c \in Created :
        /\ Scheme(c) = Some("https") /\ fut[c].flag
        /\ fut[c].out.tag = "Ok" /\ fut[c].out.variant = "Https"

\* C4: a future that resolved to Https saw the raw connector's operation
\* succeed and then the handshake succeed; one that resolved to Http never
\* invoked the handshake provider; the handshake provider is invoked only
\* after the raw connect of the same call has succeeded.
C4_HandshakeAfterRawConnect ==
    \A c \in Created :
        /\ (fut[c].out.tag = "Ok" /\ fut[c].out.variant = "Https") =>
                /\ Before(c, "raw_call", "raw_ok")
                /\ Before(c, "raw_ok", "tls_call")
                /\ Before(c, "tls_call", "tls_ok")
                /\ Ev(c, "tls_ok")
        /\ (fut[c].out.tag = "Ok" /\ fut[c].out.variant = "Http") => ~TlsInvoked(c)
        /\ TlsInvoked(c) => (Ev(c, "tls_call") /\ Before(c, "raw_ok", "tls_call"))

C4_Witness ==
    \E c \in Created :
        /\ fut[c].out.tag = "Ok" /\ fut[c].out.variant = "Https"
        /\ fut[c].pc = "Returned"
        /\ Before(c, "raw_ok", "tls_call")

\* C5: when the raw connector's operation fails, the future resolves to that
\* error and the handshake provider is never invoked, for every scheme.
C5_RawErrorPropagated ==
    \A c \in Created :
        Ev(c, "raw_err") =>
            /\ ~TlsInvoked(c)
            /\ fut[c].out \in {Pending, ReadyErr(Into(RawConnectError))}
            /\ fut[c].pc = "Returned" => fut[c].out = ReadyErr(Into(RawConnectError))

C5_Witness ==
    \E c \in Created :
        /\ Scheme(c) = Some("https")
        /\ Ev(c, "raw_err")
        /\ fut[c].pc = "Returned"
        /\ fut[c].out = ReadyErr(Into(RawConnectError))

\* C6: when the raw connect succeeded and the handshake failed, the future
\* resolves to the handshake error, never to a stream, and nothing holds the
\* raw stream once the future has resolved.
C6_HandshakeErrorPropagated ==
    \A c \in Created :
        Ev(c, "tls_err") =>
            /\ Ev(c, "raw_ok")
            /\ fut[c].out \in {Pending, ReadyErr(Into(HandshakeError))}
            /\ fut[c].pc = "Returned" => fut[c].out = ReadyErr(Into(HandshakeError))
            /\ Resolved(c) => stream[c] = "dropped"

C6_Witness ==
    \E c \in Created :
        /\ Ev(c, "tls_err")
        /\ fut[c].pc = "Returned"
        /\ fut[c].out = ReadyErr(Into(HandshakeError))
        /\ stream[c] = "dropped"

\* The instant carried by the (only) event ev of call c.
Instant(c, ev) == hist[c][CHOOSE i \in At(c, ev) : TRUE][2]

\* C7: a successful https call whose raw stream reported stats carries both
\* handshake instants: tls_connect_start is the instant read after the raw
\* connect completed and before the handshake provider was invoked,
\* tls_connect_end the instant read after the handshake completed, and
\* tls_connect_start <= tls_connect_end <= the clock.
C7_TlsTimestamps ==
    \A c \in Created :
        (fut[c].out.tag = "Ok" /\ fut[c].out.variant = "Https" /\ rawOp[c].stats # None) =>
            /\ fut[c].out.stats # None
            /\ Cardinality(At(c, "tls_start")) = 1
            /\ Cardinality(At(c, "tls_end")) = 1
            /\ Before(c, "raw_ok", "tls_start")
            /\ Before(c, "tls_start", "tls_call")
            /\ Before(c, "tls_ok", "tls_end")
            /\ LET s == fut[c].out.stats[1] IN
               /\ s.tls_connect_start = Some(Instant(c, "tls_start"))
               /\ s.tls_connect_end = Some(Instant(c, "tls_end"))
               /\ s.tls_connect_start[1] <= s.tls_connect_end[1]
               /\ s.tls_connect_end[1] <= clock

C7_Witness ==
    \E c \in Created :
        /\ fut[c].out.tag = "Ok" /\ fut[c].out.variant = "Https"
        /\ fut[c].out.stats # None
        /\ fut[c].out.stats[1].tls_connect_start[1] < fut[c].out.stats[1].tls_connect_end[1]

RawFields == {"start_time", "dns_resolve_start", "dns_resolve_end",
              "connect_start", "connect_end"}

\* C8: a successful https call whose raw stream reported stats carries every
\* field of the raw stream's stats unchanged; only the two TLS fields differ.
C8_RawStatsPreserved ==
    \A c \in Created :
        (fut[c].out.tag = "Ok" /\ fut[c].out.variant = "Https" /\ rawOp[c].stats # None) =>
            /\ fut[c].out.stats # None
            /\ DOMAIN fut[c].out.stats[1] = DOMAIN rawOp[c].stats[1]
            /\ \A k \in RawFields : fut[c].out.stats[1][k] = rawOp[c].stats[1][k]

C8_Witness ==
    \E c \in Created :
        /\ fut[c].out.tag = "Ok" /\ fut[c].out.variant = "Https"
        /\ rawOp[c].stats = Some(RawStatsFull)
        /\ fut[c].out.stats # rawOp[c].stats

\* C9: a successful https call whose raw stream reported no stats carries no
\* stats at all.
C9_NoStatsStaysNone ==
    \A c \in Created :
        (fut[c].out.tag = "Ok" /\ fut[c].out.variant = "Https" /\ rawOp[c].stats = None) =>
            fut[c].out.stats = None

C9_Witness ==
    \E c \in Created :
        /\ fut[c].out.tag = "Ok" /\ fut[c].out.variant = "Https"
        /\ Ev(c, "tls_end")
        /\ rawOp[c].stats = None
        /\ fut[c].out.stats = None

HasBracket(h) == \E i \in DOMAIN h : IsBracket(h[i])

\* The server name the claim expects for the host h of a Uri.
ExpectedDomain(h) ==
    IF h = None THEN << >>
    ELSE IF ~HasBracket(h[1]) THEN h[1]
    ELSE SubSeq(h[1], 2, Len(h[1]) - 1)

\* C10: the domain given to the handshake provider is the Uri's host without
\* its IPv6 brackets ([::1] gives ::1, example.com is kept, no host gives the
\* empty string), and the raw connector is given the Uri itself.
C10_ServerName ==
    \A c \in Created :
        /\ TlsInvoked(c) =>
            /\ tlsOp[c].domain = ExpectedDomain(fut[c].dst.host)
            /\ fut[c].dst.host = Some(v6_loopback) => tlsOp[c].domain = <<":", ":", "1">>
            /\ fut[c].dst.host = Some(example_com) => tlsOp[c].domain = example_com
        /\ (fut[c].pc \in {"Unresumed", "AwaitRaw", "AwaitTls"} /\ fut[c].kind = "connect") =>
                fut[c].host = ExpectedDomain(fut[c].dst.host)
        /\ RawInvoked(c) => rawOp[c].uri = fut[c].dst

C10_Witness ==
    \E c \in Created :
        /\ fut[c].dst.host = Some(v6_loopback)
        /\ Ev(c, "tls_call")
        /\ tlsOp[c].domain = <<":", ":", "1">>
        /\ rawOp[c].uri = fut[c].dst

\* The step is an operation `name` on a connector (one that changed something).
SvcStep(name) == last_op' # last_op /\ last_op'.name = name

\* What the claim expects of poll_ready for the raw connector's answer a.
ExpectedReady(a) ==
    IF a.tag = "Pending" THEN [tag |-> "Pending", e |-> Into("-")]
    ELSE IF a.tag = "ReadyOk" THEN [tag |-> "ReadyOk", e |-> Into("-")]
    ELSE [tag |-> "ReadyErr", e |-> Into(a.e)]

C11_ReadyIsRawReady ==
    last_op.name = "poll_ready" =>
        /\ last_op.http \in HttpReady
        /\ last_op.out = ExpectedReady(last_op.http)

\* C11: poll_ready answers what the raw connector's poll_ready answers
\* (pending, ready, or ready with the raw connector's error), whatever
\* force_https is, and invokes neither collaborator operation of any call.
C11_PollReadyDelegates ==
    [][ /\ C11_ReadyIsRawReady
        /\ C11_ReadyIsRawReady'
        /\ SvcStep("poll_ready") =>
                /\ tlsOp' = tlsOp /\ rawOp' = rawOp /\ hist' = hist
                /\ fut' = fut /\ stream' = stream
                /\ force_https' = force_https ]_vars

C11_Witness ==
    /\ last_op.name = "poll_ready"
    /\ last_op.http.tag = "ReadyErr"
    /\ last_op.out = [tag |-> "ReadyErr", e |-> Into(RawConnectError)]
    /\ force_https[last_op.svc]
    /\ \E c \in Created : fut[c].pc = "AwaitTls"

\* The outcome the flag read at call time leaves open to call c.
C12_OutcomeByFlagAtCall ==
    \A c \in Created :
        IF Scheme(c) # Some("https") /\ fut[c].flag
        THEN /\ fut[c].kind = "err"
             /\ fut[c].out \in {Pending, ReadyErr(Into(ForceHttpsButUriNotHttps))}
             /\ ~RawInvoked(c)
        ELSE /\ fut[c].kind = "connect"
             /\ fut[c].out # ReadyErr(Into(ForceHttpsButUriNotHttps))
             /\ fut[c].out.tag = "Ok" =>
                    fut[c].out.variant =
                        (IF Scheme(c) = Some("https") THEN "Https" ELSE "Http")

\* C12: force_https is read once, in call: a future's outcome (rejection,
\* Http or Https) goes by the flag at the moment of its call; https_only
\* changes no future that exists; a step changes at most one future.
C12_FlagReadAtCall ==
    [][ /\ C12_OutcomeByFlagAtCall
        /\ C12_OutcomeByFlagAtCall'
        /\ \A c \in Calls :
            /\ (c \notin Created /\ fut'[c].pc # "None") => fut'[c].flag = force_https["a"]
            /\ c \in Created =>
                /\ fut'[c].pc # "None"
                /\ fut'[c].flag = fut[c].flag
                /\ fut'[c].dst = fut[c].dst
                /\ fut'[c].kind = fut[c].kind
                /\ Resolved(c) => fut'[c].out = fut[c].out
        /\ SvcStep("https_only") =>
                /\ fut' = fut /\ rawOp' = rawOp /\ tlsOp' = tlsOp
                /\ stream' = stream /\ hist' = hist
        /\ Cardinality({c \in Calls :
                <<fut'[c], rawOp'[c], tlsOp'[c], stream'[c], hist'[c]>>
                    # <<fut[c], rawOp[c], tlsOp[c], stream[c], hist[c]>>}) <= 1 ]_vars

C12_Witness ==
    \E c, d \in Created :
        /\ c < d
        /\ fut[c].dst = fut[d].dst /\ Scheme(c) = Some("http")
        /\ ~fut[c].flag /\ fut[d].flag
        /\ fut[d].out = ReadyErr(Into(ForceHttpsButUriNotHttps))
        /\ Ev(c, "raw_ok") /\ fut[c].pc = "AwaitRaw"
        /\ force_https["a"]

\* C13: the clone starts with the flag of the connector it is cloned from;
\* from then on https_only on one connector sets that connector's flag and
\* leaves the other's flag as it was.
C13_CloneFlagIndependent ==
    [][ /\ SvcStep("https_only") =>
                /\ force_https'[last_op'.svc] = last_op'.enable
                /\ \A t \in Svc \ {last_op'.svc} : force_https'[t] = force_https[t]
        /\ SvcStep("clone") =>
                /\ last_op'.svc \notin alive /\ last_op'.svc \in alive'
                /\ force_https'[last_op'.svc] = force_https[last_op'.from]
                /\ \A t \in alive : force_https'[t] = force_https[t] ]_vars

C13_Witness ==
    /\ alive = {"a", "b"}
    /\ last_op.name = "https_only"
    /\ last_op.svc = "a"
    /\ last_set["b"] = Some(TRUE) /\ force_https["b"]
    /\ ~force_https["a"]

\* An inner operation that exists and has not been consumed or dropped.
Held(state) == state \in {"pending", "ok", "err"}

C14_NothingLeftAfterDrop ==
    \A c \in Created :
        /\ ~(Held(rawOp[c].state) /\ Held(tlsOp[c].state))
        /\ fut[c].pc = "Dropped" =>
                /\ ~Held(rawOp[c].state)
                /\ ~Held(tlsOp[c].state)
                /\ stream[c] \notin {"rawop", "tlsop"}

\* C14: dropping a future drops the inner operation it is waiting on (the raw
\* connect, or the handshake with the raw stream in it): nothing of the call
\* stays pending, nothing happens for the call afterwards (no handshake, no
\* stream); a call never has both inner operations pending.
C14_DropCancels ==
    [][ /\ C14_NothingLeftAfterDrop
        /\ C14_NothingLeftAfterDrop'
        /\ \A c \in Created :
            fut[c].pc = "Dropped" =>
                /\ fut'[c] = fut[c] /\ rawOp'[c] = rawOp[c] /\ tlsOp'[c] = tlsOp[c]
                /\ stream'[c] = stream[c] /\ hist'[c] = hist[c] ]_vars

C14_Witness ==
    \E c \in Created :
        /\ fut[c].pc = "Dropped"
        /\ fut[c].out = Pending
        /\ tlsOp[c].state = "dropped"
        /\ stream[c] = "dropped"

C15_AtMostOnce ==
    \A c \in Created :
        /\ Cardinality(At(c, "raw_call")) <= 1
        /\ Cardinality(At(c, "tls_call")) <= 1
        /\ fut[c].out.tag \in {"Pending", "Ok", "Err"}

\* C15: no retries: per call the raw connector is called at most once and the
\* handshake provider at most once, and a future that has resolved keeps its
\* result.
C15_NoRetries ==
    [][ /\ C15_AtMostOnce
        /\ C15_AtMostOnce'
        /\ \A c \in Created : Resolved(c) => fut'[c].out = fut[c].out ]_vars

C15_Witness ==
    \E c \in Created :
        /\ fut[c].out = ReadyErr(Into(HandshakeError))
        /\ Cardinality(At(c, "raw_call")) = 1
        /\ Cardinality(At(c, "tls_call")) = 1
        /\ fut[c].pc = "Dropped"

\* C16: a constructed connector has force_https false, so it takes http Uris
\* and connects them in plain; a connector's flag is true only when the last
\* https_only it got (or, before any of its own, the last its original had
\* got when it was cloned) was https_only(true).
C16_FlagIsLastSet ==
    /\ \A s \in alive :
        /\ last_set[s] = None => ~force_https[s]
        /\ force_https[s] => last_set[s] = Some(TRUE)
        /\ last_set[s] = Some(FALSE) => ~force_https[s]
    /\ (\A s \in Svc : last_set[s] = None) =>
            \A c \in Created :
                /\ fut[c].kind = "connect"
                /\ RawInvoked(c)
                /\ (Scheme(c) = Some("http") /\ fut[c].out.tag = "Ok") =>
                        fut[c].out.variant = "Http"

C16_Witness ==
    /\ alive = {"a", "b"}
    /\ \A s \in Svc : last_set[s] = None
    /\ \E c \in Created :
        /\ Scheme(c) = Some("http")
        /\ fut[c].out.tag = "Ok" /\ fut[c].out.variant = "Http"

\* C17: a call that passes the policy check calls the raw connector once,
\* with the Uri it was given, before the future is returned: the call has
\* happened for a future that was never polled, and for one that was dropped.
\* Polling only awaits the operation.
C17_RawCallInsideCall ==
    \A c \in Created :
        ~(Scheme(c) # Some("https") /\ fut[c].flag) =>
            /\ hist[c] # << >>
            /\ hist[c][1] = <<"raw_call">>
            /\ At(c, "raw_call") = {1}
            /\ rawOp[c].state # "none"
            /\ rawOp[c].uri = fut[c].dst
            /\ fut[c].pc = "Unresumed" => ~TlsInvoked(c)

C17_Witness ==
    \E c \in Created :
        /\ fut[c].pc = "Unresumed"
        /\ Scheme(c) = Some("https") /\ fut[c].dst.host = Some(v6_loopback)
        /\ hist[c] = << <<"raw_call">> >>
        /\ rawOp[c].uri = fut[c].dst

\* C18: a Uri whose scheme is not https (ws, or none) goes like http: without
\* force_https through the raw connector to Http, never to the handshake
\* provider; with force_https rejected before the raw connector is called.
C18_OtherSchemesLikeHttp ==
    \A c \in Created :
        Scheme(c) \in {Some("ws"), None} =>
            IF fut[c].flag
            THEN /\ ~RawInvoked(c)
                 /\ ~TlsInvoked(c)
                 /\ ~Suspended(c)
                 /\ fut[c].out \in {Pending, ReadyErr(Into(ForceHttpsButUriNotHttps))}
                 /\ fut[c].pc = "Returned" => Resolved(c)
            ELSE /\ RawInvoked(c)
                 /\ ~TlsInvoked(c)
                 /\ (Ev(c, "raw_ok") /\ Resolved(c)) =>
                        fut[c].out = ReadyOk("Http", rawOp[c].stats)
                 /\ fut[c].out # ReadyErr(Into(ForceHttpsButUriNotHttps))

C18_Witness ==
    \E c \in Created :
        /\ Scheme(c) = Some("ws") /\ ~fut[c].flag
        /\ fut[c].out.tag = "Ok" /\ fut[c].out.variant = "Http"
        /\ fut[c].pc = "Returned"

IsResponse(ev) == ev[1] \in {"raw_ok", "raw_err", "tls_ok", "tls_err"}
\* What the collaborators have answered to call c so far.
Responses(c) == SelectSeq(hist[c], IsResponse)

\* C19: force_https has no effect on https Uris: of two calls with the same
\* https Uri, one made with the flag true and one with it false, both call the
\* raw connector, and whenever the collaborators have answered both alike and
\* both have been polled as far, they have invoked the same and hold the same
\* result.
C19_FlagIgnoredForHttps ==
    \A c, d \in Created :
        (Scheme(c) = Some("https") /\ fut[c].dst = fut[d].dst
            /\ fut[c].flag /\ ~fut[d].flag) =>
            /\ fut[c].kind = "connect" /\ fut[d].kind = "connect"
            /\ RawInvoked(c) /\ RawInvoked(d)
            /\ rawOp[c].uri = rawOp[d].uri
            /\ (Responses(c) = Responses(d) /\ rawOp[c].stats = rawOp[d].stats
                    /\ fut[c].pc = fut[d].pc) =>
                /\ hist[c] = hist[d]
                /\ fut[c].out = fut[d].out
                /\ tlsOp[c] = tlsOp[d]
                /\ stream[c] = stream[d]

C19_Witness ==
    \E c, d \in Created :
        /\ Scheme(c) = Some("https") /\ fut[c].dst = fut[d].dst
        /\ fut[c].flag /\ ~fut[d].flag
        /\ fut[c].out.tag = "Ok" /\ fut[c].out.variant = "Https"
        /\ fut[d].out = fut[c].out

Active(c) == fut[c].pc \in {"Unresumed", "AwaitRaw", "AwaitTls"}

\* C20: a future that keeps being polled and is not dropped resolves, given
\* that the collaborators' operations complete; a poll that finds the awaited
\* operation complete does not leave the future where it was, and a rejected
\* call resolves at its first poll.
C20_EventuallyResolves ==
    /\ \A c \in Calls : Active(c) ~> (Resolved(c) \/ fut[c].pc = "Dropped")
    /\ [][ \A c \in Created :
            (fut'[c] # fut[c] /\ fut'[c].pc # "Dropped") =>
                /\ (fut[c].pc \in {"Unresumed", "AwaitRaw"} /\ rawOp[c].state \in {"ok", "err"})
                        => fut'[c].pc \in {"AwaitTls", "Returned"}
                /\ (fut[c].pc = "AwaitTls" /\ tlsOp[c].state \in {"ok", "err"})
                        => fut'[c].pc = "Returned"
                /\ fut[c].kind = "err" => (fut'[c].pc = "Returned" /\ Resolved(c)') ]_vars

C20_Witness ==
    \E c \in Created :
        /\ fut[c].pc = "Returned"
        /\ Ev(c, "tls_call")
        /\ fut[c].out.tag = "Ok"

====
